---- MODULE Spec2Model ----
(***************************************************************************)
(* rs-csvtool (src/src/main.rs): the column-specification parsers          *)
(* (parse_number, insert_column, parse_columns, parse_reorder), the header *)
(* resolver (fields_to_columns) and the two streaming loops (cut, reorder) *)
(* with the buffered writer and the ways the process ends: a normal        *)
(* return, an Err returned to main, error_exit (process::exit) and a panic.*)
(*                                                                         *)
(* A string is a sequence of one-character strings, so that split, contains*)
(* and parse::<usize> are computed character by character.  A record is a  *)
(* sequence of fields, a field is a string.                                *)
(***************************************************************************)
EXTENDS Integers, Sequences, FiniteSets, TLC

\* ---------------------------------------------------------------- bounds
MaxSpecLen == 3      \* longest --columns string of a run
MaxParseLen == 4     \* longest --columns string given to parse_columns alone
MaxFieldsLen == 3    \* longest --fields string
MaxWidth == 3        \* widest input record
MaxRows == 3         \* most records the reader yields before end-of-stream

\* ------------------------------------------------------------- alphabets
Digits == <<"0", "1", "2", "3", "4", "5", "6", "7", "8", "9">>

SpecChars == {"0", "1", "2", "3", ",", "-", "+", "x"}

FieldChars == {"a", "b", ","}

HeaderNames == {<<"a">>, <<"b">>, <<"c">>}

StringsOver(chars, n) == UNION {[1..k -> chars] : k \in 0..n}

\* The field in column i (1-based) of the n-th record of the input: every
\* cell of the input is distinct, so a field of the output names its origin.
Cell(n, i) == <<"r", Digits[n + 1], "c", Digits[i + 1]>>

Row(n, w) == [i \in 1..w |-> Cell(n, i)]

Headers == UNION {[1..w -> HeaderNames] : w \in 1..MaxWidth}

\* ------------------------------------------------------ string functions
IsDigit(ch) == \E i \in 1..10 : Digits[i] = ch

DigitVal(ch) == (CHOOSE i \in 1..10 : Digits[i] = ch) - 1

\* str::contains(char)
Contains(s, ch) == \E i \in 1..Len(s) : s[i] = ch

\* str::split(char): the pieces between the separators; n separators give
\* n + 1 pieces, empty ones included ("" splits into the one piece "").
RECURSIVE Split(_, _)
Split(s, sep) ==
    IF ~Contains(s, sep)
    THEN <<s>>
    ELSE LET i == CHOOSE k \in 1..Len(s) :
                     s[k] = sep /\ \A m \in 1..(k - 1) : s[m] # sep
         IN <<SubSeq(s, 1, i - 1)>> \o Split(SubSeq(s, i + 1, Len(s)), sep)

\* The digits of a usize, most significant first, folded left to right.
RECURSIVE FoldDigits(_, _)
FoldDigits(s, acc) ==
    IF s = <<>> THEN acc ELSE FoldDigits(Tail(s), acc * 10 + DigitVal(Head(s)))

\* str::parse::<usize>() then expect(): an optional '+', then one or more
\* decimal digits.  ok = FALSE is the panic "Invalid number: '..'".
parse_number(str) ==
    LET body == IF str # <<>> /\ Head(str) = "+" THEN Tail(str) ELSE str
    IN IF body # <<>> /\ \A i \in 1..Len(body) : IsDigit(body[i])
       THEN [ok |-> TRUE, val |-> FoldDigits(body, 0)]
       ELSE [ok |-> FALSE, val |-> 0]

\* ------------------------------------------------------------ the parsers
\* How a run has failed: kind "None" is no failure; via is "exit" for
\* error_exit (process::exit(1)), "panic" for a panic (expect, unwrap, an
\* index out of bounds).
NoError == [kind |-> "None", via |-> "none", col |-> 0, name |-> <<>>]

Failure(kind, via, col, name) ==
    [kind |-> kind, via |-> via, col |-> col, name |-> name]

Parsed(columns) == [err |-> NoError, columns |-> columns]

NotParsed(kind, via, col) ==
    [err |-> Failure(kind, via, col, <<>>), columns |-> <<>>]

\* insert_column: grow the bitmap to `value` flags, zero-filled, and set
\* flag value - 1 (0-based).  For value 0, index - 1 underflows: a panic in
\* a debug build, an index out of bounds (a panic too) in a release build.
\* Variant: value 0 is tolerated (no flag set) instead of ending the run.
insert_column_zero_ok(vector, value) ==
    LET grown == IF Len(vector) < value
                 THEN vector \o [i \in 1..(value - Len(vector)) |-> 0]
                 ELSE vector
    IN [ok |-> TRUE, vec |-> IF value = 0 THEN grown ELSE [grown EXCEPT ![value] = 1]]

insert_column(vector, value) ==
    IF value = 0
    THEN [ok |-> FALSE, vec |-> vector]
    ELSE LET grown == IF Len(vector) < value
                      THEN vector \o [i \in 1..(value - Len(vector)) |-> 0]
                      ELSE vector
         IN [ok |-> TRUE, vec |-> [grown EXCEPT ![value] = 1]]

\* (start..=end).for_each(|c| insert_column(&mut columns, c))
RECURSIVE InsertEach(_, _, _)
InsertEach(vector, c, end) ==
    IF c > end
    THEN [ok |-> TRUE, vec |-> vector]
    ELSE LET r == insert_column(vector, c)
         IN IF r.ok THEN InsertEach(r.vec, c + 1, end) ELSE r

\* Variant: the range start..end without its end.
insert_range_exclusive(vector, start, end) == InsertEach(vector, start, end - 1)

insert_range(vector, start, end) == InsertEach(vector, start, end)

RECURSIVE parse_columns_tokens(_, _)
parse_columns_tokens(tokens, columns) ==
    IF tokens = <<>>
    THEN Parsed(columns)
    ELSE LET col == Head(tokens) IN
         IF Contains(col, "-")
         THEN LET range == Split(col, "-") IN
              IF Len(range) # 2
              THEN NotParsed("InvalidRange", "exit", 0)
              ELSE LET start == parse_number(range[1])
                       end == parse_number(range[2])
                   IN IF ~start.ok \/ ~end.ok
                      THEN NotParsed("InvalidNumber", "panic", 0)
                      ELSE LET r == insert_range(columns, start.val, end.val)
                           IN IF r.ok
                              THEN parse_columns_tokens(Tail(tokens), r.vec)
                              ELSE NotParsed("InvalidColumn", "panic", 0)
         ELSE LET n == parse_number(col) IN
              IF ~n.ok
              THEN NotParsed("InvalidNumber", "panic", 0)
              ELSE LET r == insert_column(columns, n.val)
                   IN IF r.ok
                      THEN parse_columns_tokens(Tail(tokens), r.vec)
                      ELSE NotParsed("InvalidColumn", "panic", 0)

parse_columns(columns_str) == parse_columns_tokens(Split(columns_str, ","), <<>>)

RECURSIVE parse_reorder_tokens(_, _)
parse_reorder_tokens(tokens, columns) ==
    IF tokens = <<>>
    THEN Parsed(columns)
    ELSE LET column == parse_number(Head(tokens)) IN
         IF ~column.ok
         THEN NotParsed("InvalidNumber", "panic", 0)
         ELSE IF column.val < 1
         THEN NotParsed("InvalidColumn", "exit", column.val)
         ELSE parse_reorder_tokens(Tail(tokens), Append(columns, column.val))

parse_reorder(columns_str) == parse_reorder_tokens(Split(columns_str, ","), <<>>)

\* ------------------------------------------------------------- the writer
\* csv::Writer over a BufWriter: write_record appends to the buffer, which
\* is handed to the output stream when it is full (`full`: field sizes are
\* not modelled, so any write may be the one that fills it).
write_record(buf, strm, rec, full) ==
    IF full
    THEN [wbuf |-> <<>>, stream |-> strm \o buf \o <<rec>>]
    ELSE [wbuf |-> Append(buf, rec), stream |-> strm]

\* Writer::flush(): everything buffered reaches the stream.
flush(buf, strm) == strm \o buf

\* The writer goes out of scope (a return through `?`, or the unwinding of
\* a panic): csv::Writer and BufWriter flush when dropped.
\* Variant: a writer that is dropped without flushing.
drop_writer_no_flush(buf, strm) == strm

drop_writer(buf, strm) == flush(buf, strm)

\* ByteRecord::clear()
\* Variant: the scratch record is not cleared.
clear_noop(rec) == rec

clear(rec) == <<>>

\* ---------------------------------------------------------- the selector
\* The body of cut's loop over 0..record.len(): idx is the 1-based place of
\* the 0-based index idx - 1.
RECURSIVE cut_fields(_, _, _, _)
cut_fields(cols, rec, out, idx) ==
    IF idx > Len(rec)
    THEN out
    ELSE cut_fields(cols, rec,
                    IF idx <= Len(cols) /\ cols[idx] = 1
                    THEN Append(out, rec[idx]) ELSE out,
                    idx + 1)

\* Variant: the bitmap read one place off.
cut_project_shifted(cols, rec, out) ==
    cut_fields(SubSeq(cols, 2, Len(cols)), rec, out, 1)

cut_project(cols, rec, out) == cut_fields(cols, rec, out, 1)

\* record.get(i) for a 0-based i: the field, or None beyond the record.
Get(rec, i) == IF i < Len(rec) THEN <<rec[i + 1]>> ELSE <<>>

\* The body of reorder's loop over 0..columns.len().
RECURSIVE reorder_fields(_, _, _, _)
reorder_fields(cols, rec, out, idx) ==
    IF idx > Len(cols)
    THEN [err |-> NoError, out |-> out]
    ELSE LET column_idx == cols[idx] IN
         IF column_idx > Len(rec)
         THEN [err |-> Failure("ColumnOutOfRange", "exit", column_idx, <<>>),
               out |-> out]
         ELSE IF Get(rec, column_idx) = <<>>
         THEN [err |-> Failure("UnwrapNone", "panic", column_idx, <<>>),
               out |-> out]
         ELSE reorder_fields(cols, rec,
                             Append(out, Get(rec, column_idx)[1]), idx + 1)

reorder_project(cols, rec, out) == reorder_fields(cols, rec, out, 1)

\* ---------------------------------------------------- the header resolver
\* Variant: the first occurrence of a name wins.
map_get_first(in_record, field) ==
    IF \E i \in 1..Len(in_record) : in_record[i] = field
    THEN <<(CHOOSE i \in 1..Len(in_record) :
               in_record[i] = field
               /\ \A k \in 1..(i - 1) : in_record[k] # field) - 1>>
    ELSE <<>>

\* The HashMap built from the header: a name maps to the 0-based index of
\* its last insertion.
map_get(in_record, field) ==
    IF \E i \in 1..Len(in_record) : in_record[i] = field
    THEN <<(CHOOSE i \in 1..Len(in_record) :
               in_record[i] = field
               /\ \A k \in (i + 1)..Len(in_record) : in_record[k] # field) - 1>>
    ELSE <<>>

\* Variant: a name absent from the header is skipped.
RECURSIVE resolve_fields_skip(_, _, _, _)
resolve_fields_skip(in_record, fields, cols, out) ==
    IF fields = <<>>
    THEN [err |-> NoError, columns |-> cols, out |-> out]
    ELSE LET field == Head(fields)
             column == map_get(in_record, field)
         IN IF column = <<>>
            THEN resolve_fields_skip(in_record, Tail(fields), cols, out)
            ELSE resolve_fields_skip(in_record, Tail(fields),
                                     Append(cols, column[1]), Append(out, field))

\* The loop over the requested fields: the columns and the output header.
RECURSIVE resolve_fields(_, _, _, _)
resolve_fields(in_record, fields, cols, out) ==
    IF fields = <<>>
    THEN [err |-> NoError, columns |-> cols, out |-> out]
    ELSE LET field == Head(fields)
             column == map_get(in_record, field)
         IN IF column = <<>>
            THEN [err |-> Failure("UnknownField", "panic", 0, field),
                  columns |-> cols, out |-> out]
            ELSE resolve_fields(in_record, Tail(fields),
                                Append(cols, column[1]), Append(out, field))

\* ------------------------------------------------------------------ state
VARIABLES
    cmd,          \* the subcommand: "cut" or "reorder"
    columns_arg,  \* --columns: <<>> when absent, <<string>> when given
    fields_arg,   \* --fields: <<>> when absent, <<string>> when given
    pc,           \* "Start", "Header", "Streaming", "Done", "Failed"
    columns,      \* the resolved column vector (bitmap or index list)
    opened,       \* the reader and the writer have been opened
    first_len,    \* the reader's field count of its first record (0: none)
    nread,        \* records the reader has yielded
    eof,          \* the reader has signalled end-of-stream
    header,       \* the header record read by fields_to_columns
    record,       \* the record of the current (last) loop iteration
    out_record,   \* the scratch output record
    written,      \* every record handed to write_record, in order
    wbuf,         \* records the writer holds in its buffer
    stream,       \* records that have reached the output stream
    flushes,      \* calls of writer.flush()
    error         \* how the run failed (NoError while it has not)

vars == <<cmd, columns_arg, fields_arg, pc, columns, opened, first_len, nread,
          eof, header, record, out_record, written, wbuf, stream, flushes,
          error>>

args == <<cmd, columns_arg, fields_arg>>

Init ==
    /\ \/ /\ cmd = "cut"
          /\ columns_arg \in {<<s>> : s \in StringsOver(SpecChars, MaxSpecLen)}
          /\ fields_arg = <<>>
       \/ /\ cmd = "reorder"
          /\ columns_arg \in {<<s>> : s \in StringsOver(SpecChars, MaxSpecLen)}
          /\ fields_arg = <<>>
       \/ /\ cmd = "reorder"
          /\ columns_arg = <<>>
          /\ fields_arg \in {<<s>> : s \in StringsOver(FieldChars, MaxFieldsLen)}
    /\ pc = "Start"
    /\ columns = <<>>
    /\ opened = FALSE
    /\ first_len = 0
    /\ nread = 0
    /\ eof = FALSE
    /\ header = <<>>
    /\ record = <<>>
    /\ out_record = <<>>
    /\ written = <<>>
    /\ wbuf = <<>>
    /\ stream = <<>>
    /\ flushes = 0
    /\ error = NoError

\* ------------------------------------------------------------- the reader
\* ReaderBuilder::new().has_headers(false).delimiter(d): `flexible` keeps
\* its default, false, so every record has the field count of the first
\* one and a row of another width is the read error UnequalLengths.
NextWidths == IF first_len = 0 THEN 1..MaxWidth ELSE {first_len}

ReadErrors == IF first_len = 0 THEN {"Io"} ELSE {"Io", "UnequalLengths"}

ReadErrorKinds == {"Io", "UnequalLengths"}

\* ------------------------------------------------------ ways a run ends
\* error_exit: println!, then process::exit(1).  No destructor runs, so
\* the writer's buffer is not flushed.
error_exit(err) ==
    /\ pc' = "Failed"
    /\ error' = err
    /\ UNCHANGED <<wbuf, stream>>

\* A panic unwinds the stack: the writer, when it exists, is dropped.
panic(err) ==
    /\ pc' = "Failed"
    /\ error' = err
    /\ stream' = drop_writer(wbuf, stream)
    /\ wbuf' = <<>>

\* `?` on an Err: cut/reorder return, their locals are dropped, and main
\* calls error_exit with the error's text.
return_err(kind) ==
    /\ pc' = "Failed"
    /\ error' = Failure(kind, "exit", 0, <<>>)
    /\ stream' = drop_writer(wbuf, stream)
    /\ wbuf' = <<>>

\* CutConfig::new / ReorderConfig::new abort in the parser: the statements
\* that open the reader and the writer come after them and have not run.
\* Variant: the streams are opened before the specification is parsed.
config_abort_after_open(err) ==
    /\ IF err.via = "exit" THEN error_exit(err) ELSE panic(err)
    /\ opened' = TRUE
    /\ UNCHANGED columns

config_abort(err) ==
    /\ IF err.via = "exit" THEN error_exit(err) ELSE panic(err)
    /\ UNCHANGED <<columns, opened>>

\* ---------------------------------------------------------------- actions
\* cut, lines 176-182: CutConfig::new (parse_columns), then the reader and
\* the writer are opened.
CutStart ==
    /\ pc = "Start"
    /\ cmd = "cut"
    /\ LET p == parse_columns(columns_arg[1]) IN
       IF p.err.kind # "None"
       THEN config_abort(p.err)
       ELSE /\ pc' = "Streaming"
            /\ columns' = p.columns
            /\ opened' = TRUE
            /\ UNCHANGED <<error, wbuf, stream>>
    /\ UNCHANGED <<args, first_len, nread, eof, header, record, out_record,
                   written, flushes>>

\* cut's loop, one iteration with a record read.
CutRecord ==
    /\ pc = "Streaming"
    /\ cmd = "cut"
    /\ nread < MaxRows
    /\ \E w \in NextWidths, full \in BOOLEAN :
          LET rec == Row(nread + 1, w)
              out == cut_project(columns, rec, out_record)
              wr == write_record(wbuf, stream, out, full)
          IN /\ record' = rec
             /\ first_len' = w
             /\ nread' = nread + 1
             /\ written' = Append(written, out)
             /\ wbuf' = wr.wbuf
             /\ stream' = wr.stream
             /\ out_record' = clear(out)
    /\ UNCHANGED <<args, pc, columns, opened, eof, header, flushes, error>>

\* cut's loop ends: the iterator yields None, then writer.flush() and Ok.
CutEof ==
    /\ pc = "Streaming"
    /\ cmd = "cut"
    /\ eof' = TRUE
    /\ stream' = flush(wbuf, stream)
    /\ wbuf' = <<>>
    /\ flushes' = flushes + 1
    /\ pc' = "Done"
    /\ UNCHANGED <<args, columns, opened, first_len, nread, header, record,
                   out_record, written, error>>

\* cut's loop: `let record = result?` on a read error.
CutReadError ==
    /\ pc = "Streaming"
    /\ cmd = "cut"
    /\ \E kind \in ReadErrors : return_err(kind)
    /\ UNCHANGED <<args, columns, opened, first_len, nread, eof, header,
                   record, out_record, written, flushes>>

\* reorder, lines 204-218 without the call of fields_to_columns:
\* ReorderConfig::new (parse_reorder, or the split of --fields), then the
\* reader and the writer are opened.
ReorderStart ==
    /\ pc = "Start"
    /\ cmd = "reorder"
    /\ IF fields_arg # <<>>
       THEN /\ pc' = "Header"
            /\ opened' = TRUE
            /\ UNCHANGED <<columns, error, wbuf, stream>>
       ELSE LET p == parse_reorder(columns_arg[1]) IN
            IF p.err.kind # "None"
            THEN config_abort(p.err)
            ELSE /\ pc' = "Streaming"
                 /\ columns' = p.columns
                 /\ opened' = TRUE
                 /\ UNCHANGED <<error, wbuf, stream>>
    /\ UNCHANGED <<args, first_len, nread, eof, header, record, out_record,
                   written, flushes>>

\* fields_to_columns: iter.next() is None, expect("No header line found").
HeaderMissing ==
    /\ pc = "Header"
    /\ eof' = TRUE
    /\ panic(Failure("NoHeader", "panic", 0, <<>>))
    /\ UNCHANGED <<args, columns, opened, first_len, nread, header, record,
                   out_record, written, flushes>>

\* fields_to_columns: iter.next() is an Err, returned through `?`.
HeaderReadError ==
    /\ pc = "Header"
    /\ return_err("Io")
    /\ UNCHANGED <<args, columns, opened, first_len, nread, eof, header,
                   record, out_record, written, flushes>>

\* fields_to_columns with a header record read.
FieldsToColumns ==
    /\ pc = "Header"
    /\ nread < MaxRows
    /\ \E in_record \in Headers, full \in BOOLEAN :
          LET fields == Split(fields_arg[1], ",")
              r == resolve_fields(in_record, fields, <<>>, <<>>)
              wr == write_record(wbuf, stream, r.out, full)
          IN /\ header' = in_record
             /\ first_len' = Len(in_record)
             /\ nread' = nread + 1
             /\ IF r.err.kind # "None"
                THEN /\ panic(r.err)
                     /\ UNCHANGED <<columns, written>>
                ELSE /\ columns' = r.columns
                     /\ written' = Append(written, r.out)
                     /\ wbuf' = wr.wbuf
                     /\ stream' = wr.stream
                     /\ pc' = "Streaming"
                     /\ UNCHANGED error
    /\ UNCHANGED <<args, opened, eof, record, out_record, flushes>>

\* reorder's loop, one iteration with a record read.
ReorderRecord ==
    /\ pc = "Streaming"
    /\ cmd = "reorder"
    /\ nread < MaxRows
    /\ \E w \in NextWidths, full \in BOOLEAN :
          LET rec == Row(nread + 1, w)
              p == reorder_project(columns, rec, out_record)
              wr == write_record(wbuf, stream, p.out, full)
          IN /\ record' = rec
             /\ first_len' = w
             /\ nread' = nread + 1
             /\ IF p.err.kind # "None"
                THEN /\ IF p.err.via = "exit"
                        THEN error_exit(p.err) ELSE panic(p.err)
                     /\ out_record' = p.out
                     /\ UNCHANGED written
                ELSE /\ written' = Append(written, p.out)
                     /\ wbuf' = wr.wbuf
                     /\ stream' = wr.stream
                     /\ out_record' = clear(p.out)
                     /\ UNCHANGED <<pc, error>>
    /\ UNCHANGED <<args, columns, opened, eof, header, flushes>>

\* reorder's loop ends: the iterator yields None, then writer.flush() and Ok.
ReorderEof ==
    /\ pc = "Streaming"
    /\ cmd = "reorder"
    /\ eof' = TRUE
    /\ stream' = flush(wbuf, stream)
    /\ wbuf' = <<>>
    /\ flushes' = flushes + 1
    /\ pc' = "Done"
    /\ UNCHANGED <<args, columns, opened, first_len, nread, header, record,
                   out_record, written, error>>

\* reorder's loop: `let record = result?` on a read error.
ReorderReadError ==
    /\ pc = "Streaming"
    /\ cmd = "reorder"
    /\ \E kind \in ReadErrors : return_err(kind)
    /\ UNCHANGED <<args, columns, opened, first_len, nread, eof, header,
                   record, out_record, written, flushes>>

Next ==
    \/ CutStart
    \/ CutRecord
    \/ CutEof
    \/ CutReadError
    \/ ReorderStart
    \/ HeaderMissing
    \/ HeaderReadError
    \/ FieldsToColumns
    \/ ReorderRecord
    \/ ReorderEof
    \/ ReorderReadError

Spec == Init /\ [][Next]_vars

\* parse_columns alone, on longer specifications: cut up to the point where
\* CutConfig::new has returned or the process has ended in it.
ParseInit ==
    /\ cmd = "cut"
    /\ columns_arg \in {<<s>> : s \in StringsOver(SpecChars, MaxParseLen)}
    /\ fields_arg = <<>>
    /\ pc = "Start"
    /\ columns = <<>>
    /\ opened = FALSE
    /\ first_len = 0
    /\ nread = 0
    /\ eof = FALSE
    /\ header = <<>>
    /\ record = <<>>
    /\ out_record = <<>>
    /\ written = <<>>
    /\ wbuf = <<>>
    /\ stream = <<>>
    /\ flushes = 0
    /\ error = NoError

ParseNext == CutStart

ParseSpec == ParseInit /\ [][ParseNext]_vars

\* ------------------------------------------------- vocabulary of the claims
\* The tokens of a column specification: its maximal comma-free pieces.
TokenSet(s) ==
    {SubSeq(s, i, j) : <<i, j>> \in
        {b \in (1..(Len(s) + 1)) \X (0..Len(s)) :
            /\ b[2] >= b[1] - 1
            /\ (b[1] = 1 \/ s[b[1] - 1] = ",")
            /\ (b[2] = Len(s) \/ s[b[2] + 1] = ",")
            /\ \A m \in b[1]..b[2] : s[m] # ","}}

DigitChars == {Digits[i] : i \in 1..10}

\* A decimal numeral as parse::<usize> reads it: digits, after an optional '+'.
IsNumeral(tok) ==
    \E k \in 0..1 :
        /\ Len(tok) > k
        /\ k = 1 => tok[1] = "+"
        /\ \A i \in (k + 1)..Len(tok) : tok[i] \in DigitChars

CharValue(ch) ==
    CASE ch = "0" -> 0 [] ch = "1" -> 1 [] ch = "2" -> 2 [] ch = "3" -> 3
      [] ch = "4" -> 4 [] ch = "5" -> 5 [] ch = "6" -> 6 [] ch = "7" -> 7
      [] ch = "8" -> 8 [] ch = "9" -> 9

\* The value of a numeral, from its last digit.
RECURSIVE NumeralValue(_)
NumeralValue(tok) ==
    IF tok = <<>> \/ tok[Len(tok)] = "+"
    THEN 0
    ELSE NumeralValue(SubSeq(tok, 1, Len(tok) - 1)) * 10 + CharValue(tok[Len(tok)])

Dashes(tok) == {i \in 1..Len(tok) : tok[i] = "-"}

RangeStart(tok) == SubSeq(tok, 1, (CHOOSE i \in Dashes(tok) : TRUE) - 1)

RangeEnd(tok) == SubSeq(tok, (CHOOSE i \in Dashes(tok) : TRUE) + 1, Len(tok))

\* A range token that splits on '-' into exactly two numerals.
IsRange(tok) ==
    /\ Cardinality(Dashes(tok)) = 1
    /\ IsNumeral(RangeStart(tok))
    /\ IsNumeral(RangeEnd(tok))

\* The tokens C5 names as errors: the integer 0, a non-numeric token, and a
\* range token that is not two numerals around one '-'.
BadCutToken(tok) ==
    IF Dashes(tok) = {}
    THEN ~IsNumeral(tok) \/ NumeralValue(tok) = 0
    ELSE ~IsRange(tok)

\* The tokens C5 names as valid: N, or N-M, with 1 <= N <= M.
GoodCutToken(tok) ==
    IF Dashes(tok) = {}
    THEN IsNumeral(tok) /\ NumeralValue(tok) >= 1
    ELSE /\ IsRange(tok)
         /\ 1 <= NumeralValue(RangeStart(tok))
         /\ NumeralValue(RangeStart(tok)) <= NumeralValue(RangeEnd(tok))

\* The columns a valid token selects.
TokenColumns(tok) ==
    IF Dashes(tok) = {}
    THEN {NumeralValue(tok)}
    ELSE NumeralValue(RangeStart(tok))..NumeralValue(RangeEnd(tok))

BadReorderToken(tok) == ~IsNumeral(tok) \/ NumeralValue(tok) = 0

ParseErrorKinds == {"InvalidNumber", "InvalidRange", "InvalidColumn"}

ProjectionErrorKinds == {"ColumnOutOfRange", "UnwrapNone"}

CutMode == cmd = "cut"

NumericMode == cmd = "reorder" /\ fields_arg = <<>>

FieldsMode == cmd = "reorder" /\ fields_arg # <<>>

\* The requested names of --fields, in request order.
Requested == Split(fields_arg[1], ",")

Names(rec) == {rec[i] : i \in 1..Len(rec)}

LastPos(rec, name) ==
    CHOOSE i \in 1..Len(rec) :
        rec[i] = name /\ \A k \in 1..Len(rec) : rec[k] = name => k <= i

RECURSIVE Decimal(_)
Decimal(n) ==
    IF n < 10 THEN <<Digits[n + 1]>>
    ELSE Decimal(n \div 10) \o <<Digits[(n % 10) + 1]>>

\* The specification "1-N".
FullRange(n) == <<"1", "-">> \o Decimal(n)

\* ------------------------------------------------------------------ claims
\* C1: numeric reorder.  For the sequence c_1..c_k parse_reorder returned and
\* every input record at least max(c_j) wide, an output record is written
\* with exactly k fields, the j-th being the record's field at 1-based
\* position c_j.
C1_NumericReorder ==
    (NumericMode /\ pc # "Start") =>
        \A n \in 1..nread :
            (\A j \in 1..Len(columns) : columns[j] <= first_len) =>
                /\ n <= Len(written)
                /\ Len(written[n]) = Len(columns)
                /\ \A j \in 1..Len(columns) : written[n][j] = Cell(n, columns[j])

\* C2: cut projection.  Every output record of cut is the sequence of the
\* input record's fields at the places the bitmap selects, in increasing
\* place; every record read is written, whether the bitmap is shorter or
\* longer than the record.
C2_CutProjection ==
    CutMode =>
        LET sel == {i \in 1..first_len : i <= Len(columns) /\ columns[i] = 1} IN
        /\ error.kind \notin ProjectionErrorKinds
        /\ Len(written) = nread
        /\ \A i \in 1..Len(columns) : columns[i] \in {0, 1}
        /\ \A n \in 1..Len(written) :
              /\ Len(written[n]) = Cardinality(sel)
              /\ \A j \in 1..Len(written[n]) :
                    \E i \in sel :
                        /\ Cardinality({m \in sel : m < i}) = j - 1
                        /\ written[n][j] = Cell(n, i)

C2_Witness ==
    /\ CutMode
    /\ Len(written) >= 2
    /\ first_len = 2
    /\ columns = <<1, 0, 1>>
    /\ written[2] = <<Cell(2, 1)>>

\* C3: name-based reorder.  With every requested name in the header,
\* fields_to_columns consumes the first record only and writes the requested
\* names as the first output record; every later row read yields the row of
\* its fields at the header places of the names, the last occurrence of a
\* name in the header being its place.
C3_NameReorder ==
    (FieldsMode /\ header # <<>> /\ \A j \in 1..Len(Requested) :
                                        Requested[j] \in Names(header)) =>
        /\ pc \in {"Streaming", "Done", "Failed"}
        /\ Len(written) = nread
        /\ written[1] = Requested
        /\ \A j \in 1..Len(Requested) :
              columns[j] = LastPos(header, Requested[j]) - 1
        /\ \A n \in 2..nread :
              /\ Len(written[n]) = Len(Requested)
              /\ \A j \in 1..Len(Requested) :
                    written[n][j] = Cell(n, LastPos(header, Requested[j]))

C3_Witness ==
    /\ FieldsMode
    /\ header = <<<<"a">>, <<"b">>, <<"a">>>>
    /\ Requested = <<<<"b">>, <<"a">>>>
    /\ Len(written) = 2
    /\ written[2] = <<Cell(2, 2), Cell(2, 3)>>

\* The 1-based place the j-th index of the resolved sequence addresses:
\* parse_reorder keeps 1-based numbers, fields_to_columns 0-based indices.
Addressed(j) == IF FieldsMode THEN columns[j] + 1 ELSE columns[j]

\* C4: reorder out of range.  A record for which some index of the resolved
\* sequence addresses a place at or beyond its width fails with
\* ColumnOutOfRange for the first such index and no row is written for it;
\* a record all of whose indices address existing fields never does.
C4_OutOfRange ==
    (cmd = "reorder" /\ record # <<>>) =>
        LET beyond == {j \in 1..Len(columns) : Addressed(j) > Len(record)} IN
        /\ beyond # {} =>
              /\ pc = "Failed"
              /\ error.kind = "ColumnOutOfRange"
              /\ \E j \in beyond :
                    /\ \A k \in beyond : j <= k
                    /\ error.col = columns[j]
              /\ Len(written) = nread - 1
        /\ beyond = {} => error.kind # "ColumnOutOfRange"

\* C5: cut-spec parse errors.  parse_columns fails with a parse error and
\* returns no bitmap for every specification with a token that is 0, not a
\* number, or a range that is not two numbers around one '-'; for every
\* specification of tokens N and N-M with 1 <= N <= M it returns the bitmap
\* of the columns named.
C5_CutParse ==
    (CutMode /\ pc # "Start") =>
        LET toks == TokenSet(columns_arg[1]) IN
        /\ (\E tok \in toks : BadCutToken(tok)) =>
              /\ pc = "Failed"
              /\ error.kind \in ParseErrorKinds
              /\ columns = <<>>
        /\ (\A tok \in toks : GoodCutToken(tok)) =>
              LET named == UNION {TokenColumns(tok) : tok \in toks} IN
              /\ error.kind \notin ParseErrorKinds
              /\ \A c \in named : c <= Len(columns)
              /\ Len(columns) \in named
              /\ \A i \in 1..Len(columns) : columns[i] = 1 <=> i \in named

C5_Witness ==
    /\ CutMode
    /\ pc = "Failed"
    /\ error.kind = "InvalidColumn"
    /\ columns_arg = <<<<"3", ",", "0">>>>

\* C6: fail-fast.  A run of cut or reorder whose column specification is
\* invalid has ended before the streams are opened and before a record is
\* read, with no output.
InvalidColumnsArg ==
    /\ columns_arg # <<>>
    /\ \E tok \in TokenSet(columns_arg[1]) :
          IF CutMode THEN BadCutToken(tok) ELSE BadReorderToken(tok)

C6_FailFast ==
    (InvalidColumnsArg /\ pc # "Start") =>
        /\ pc = "Failed"
        /\ error.kind \in ParseErrorKinds
        /\ ~opened
        /\ nread = 0
        /\ ~eof
        /\ written = <<>>
        /\ wbuf = <<>>
        /\ stream = <<>>

C6_Witness ==
    /\ NumericMode
    /\ columns_arg = <<<<"1", "-", "2">>>>
    /\ pc = "Failed"
    /\ ~opened

\* C7: unknown field.  When a requested name is not in the header, the run
\* fails with UnknownField naming the first such name, the header being the
\* only record consumed, and nothing is written: no header, no data row.
C7_UnknownField ==
    (FieldsMode /\ header # <<>> /\ \E j \in 1..Len(Requested) :
                                        Requested[j] \notin Names(header)) =>
        /\ pc = "Failed"
        /\ error.kind = "UnknownField"
        /\ \E j \in 1..Len(Requested) :
              /\ Requested[j] \notin Names(header)
              /\ \A k \in 1..(j - 1) : Requested[k] \in Names(header)
              /\ error.name = Requested[j]
        /\ nread = 1
        /\ record = <<>>
        /\ written = <<>>
        /\ stream = <<>>

C7_Witness ==
    /\ FieldsMode
    /\ pc = "Failed"
    /\ error.kind = "UnknownField"
    /\ Requested = <<<<"a">>, <<"b">>>>
    /\ header = <<<<"a">>, <<"c">>>>
    /\ error.name = <<"b">>

\* C8: no rollback.  When a run has failed, every record that was written
\* before the failure is in the output stream, and the failing record has
\* produced no output record.
C8_NoRollback ==
    pc = "Failed" =>
        /\ stream = written
        /\ error.kind \in ReadErrorKinds => Len(written) = nread
        /\ error.kind \in ProjectionErrorKinds => Len(written) = nread - 1

C8_Witness ==
    /\ FieldsMode
    /\ pc = "Failed"
    /\ error.kind \in ReadErrorKinds
    /\ nread = 3
    /\ Len(stream) = 3
    /\ stream[1] = Requested

\* C9: round trip.  cut with the specification "1-N" writes every record of
\* N fields as it was read.
C9_RoundTrip ==
    \A n \in 1..MaxWidth :
        (CutMode /\ columns_arg = <<FullRange(n)>> /\ first_len = n) =>
            /\ Len(written) = nread
            /\ \A r \in 1..Len(written) : written[r] = Row(r, n)

C9_Witness ==
    /\ CutMode
    /\ columns_arg = <<FullRange(3)>>
    /\ first_len = 3
    /\ Len(written) = 2
    /\ written[2] = <<Cell(2, 1), Cell(2, 2), Cell(2, 3)>>

\* C10: sequencing.  Between iterations the scratch record is empty and as
\* many records have been written as read, each built from the fields of the
\* record of the same number only; writer.flush() is called once, on
\* end-of-stream and after the last write, never while streaming; a run that
\* meets end-of-stream without an error is Done, with all output in the stream.
C10_Sequencing ==
    /\ pc = "Streaming" =>
          /\ out_record = <<>>
          /\ Len(written) = nread
          /\ flushes = 0
          /\ ~eof
    /\ flushes <= 1
    /\ flushes = 1 <=> pc = "Done"
    /\ pc = "Done" =>
          /\ eof
          /\ error = NoError
          /\ Len(written) = nread
          /\ wbuf = <<>>
          /\ stream = written
    /\ \A n \in 1..Len(written) :
          (FieldsMode /\ n = 1) \/
          \A j \in 1..Len(written[n]) :
              \E i \in 1..first_len : written[n][j] = Cell(n, i)
    /\ (eof /\ error = NoError) => pc = "Done"
    /\ pc = "Failed" <=> error # NoError

C10_Witness ==
    /\ pc = "Done"
    /\ NumericMode
    /\ flushes = 1
    /\ Len(written) = 3
    /\ stream = written
    /\ Len(columns) = 2

====
